---- MODULE Spec2Model ----
(***************************************************************************)
(* WeLovePDF: the three tools of the application (PdfMerger, PdfSplitter,  *)
(* PdfCompressor) as one state machine.  App renders exactly one tool at a *)
(* time; a tool's React state lives while it is mounted.  Every event      *)
(* handler is one action; an async handler is one action per stretch of    *)
(* code between two suspension points (await) at which another handler can *)
(* run.  A handler reads the state of the render it was created in: for a  *)
(* handler started by a user event that is the current state, for the      *)
(* continuation of an async handler it is the state captured at its start. *)
(***************************************************************************)
EXTENDS Integers, Sequences, FiniteSets, TLC

(* ------------------------------ bounds -------------------------------- *)
\* async handler calls in flight at the same time
MaxTasks == 2
\* Date.now() takes the values 0..MaxClock
MaxClock == 1

(* --------------------------- the user's files ------------------------- *)
\* File objects the user can hand to a dropzone.  Files 1, 2 and 6 carry the
\* same name (three folders), file 3 is not a readable PDF, file 4 is a PDF
\* with an empty page tree.
Files == 1..6
FileName == <<"a.pdf", "a.pdf", "bad.pdf", "empty.pdf", "long.pdf", "a.pdf">>
\* page count reported by the parser; -1: the parser rejects the file
FilePageCount == <<1, 1, -1, 0, 4, 2>>
NoFile == 0
\* the files handed to the dropzone of each tool
MergerFiles == {1, 2, 3}
SplitterFiles == {1, 3, 5}
CompressorFiles == {3, 4, 5}

Parses(f) == FilePageCount[f] >= 0

\* native (scale 1) size of page i of file f, in points
NativeSize(f, i) == [width |-> 100 * (f + i), height |-> 200 * (f + i)]

(* ------------------------------ values -------------------------------- *)
Tool == {"Compress", "Merge", "Split"}
NoError == "null"
NullIdx == -1
NullRec == [null |-> TRUE]
Undefined == [undefined |-> TRUE]
NoDownload == [name |-> <<>>, doc |-> <<>>]
Download(name, doc) == [name |-> name, doc |-> doc]

Min(a, b) == IF a < b THEN a ELSE b

\* `${file.name}-${Date.now()}` and `${fileId}-page-${i}`: both strings are
\* decomposable from the right (digits, "-page-", digits, "-"), so they are
\* equal exactly when their parts are equal
FileId(name, ts) == <<name, ts>>
PageId(fileId, i) == <<fileId, i>>

LoadedPdfFile(fileId, f) == [id |-> fileId, file |-> f, pageCount |-> FilePageCount[f]]

\* the element pushed for loop index i (0-based)
PageInProcessing(fileId, i) ==
    [id |-> PageId(fileId, i), sourceFileId |-> fileId, originalPageIndex |-> i + 1]

\* for (let i = 0; i < pageCount; i++) newPages.push(...)
PagesOf(fileId, f) == [k \in 1..FilePageCount[f] |-> PageInProcessing(fileId, k - 1)]

RECURSIVE SelectSeqBy(_, _)
\* Array.prototype.filter with the predicate "id is not in ids"
SelectSeqBy(s, ids) ==
    IF s = <<>> THEN <<>>
    ELSE IF Head(s).id \in ids THEN SelectSeqBy(Tail(s), ids)
         ELSE <<Head(s)>> \o SelectSeqBy(Tail(s), ids)

FilterOut_buggy(s, ids) ==
    IF \E k \in 1..Len(s) : s[k].id \in ids
    THEN LET k == CHOOSE j \in 1..Len(s) : s[j].id \in ids
         IN SubSeq(s, 1, k - 1) \o SubSeq(s, k + 1, Len(s))
    ELSE s
\* currentPages.filter(p => keep(p.id))
FilterOut(s, ids) == SelectSeqBy(s, ids)

RemoveAt(s, k) == SubSeq(s, 1, k - 1) \o SubSeq(s, k + 1, Len(s))

\* arr.splice(start, 1)[0] together with the array left behind
SpliceOut(s, start) ==
    IF start < Len(s)
    THEN [item |-> s[start + 1], rest |-> RemoveAt(s, start + 1)]
    ELSE [item |-> Undefined, rest |-> s]

\* arr.splice(start, 0, item): start is clamped to the length
SpliceIn(s, start, item) ==
    LET at == Min(start, Len(s))
    IN SubSeq(s, 1, at) \o <<item>> \o SubSeq(s, at + 1, Len(s))

MovePage_buggy(s, d, t) ==
    LET out == SpliceOut(s, d)
    IN SpliceIn(out.rest, IF t > d THEN t - 1 ELSE t, out.item)
\* the two splices of handleDrop
MovePage(s, d, t) ==
    LET out == SpliceOut(s, d)
    IN SpliceIn(out.rest, t, out.item)

\* loadedFiles.find(f => f.id === id)
FindFile(loadedFiles, id) ==
    IF \E k \in 1..Len(loadedFiles) : loadedFiles[k].id = id
    THEN loadedFiles[CHOOSE k \in 1..Len(loadedFiles) :
                        /\ loadedFiles[k].id = id
                        /\ \A j \in 1..(k - 1) : loadedFiles[j].id # id]
    ELSE NullRec

Range(s) == {s[k] : k \in 1..Len(s)}

(* ------------------------------- state -------------------------------- *)
VARIABLES
    activeTool,   \* App: the tool that is mounted
    merger,       \* PdfMerger: its useState values and its two refs
    splitter,     \* PdfSplitter: its useState values
    compressor,   \* PdfCompressor: its useState values
    tasks,        \* the async handler calls that are suspended at an await
    now,          \* the value Date.now() returns
    crashed,      \* a render threw: React has unmounted the tree
    last          \* the handler (or continuation) that ran last: its name, two of
                  \* its arguments, and the file its a.click() handed to the browser

vars == <<activeTool, merger, splitter, compressor, tasks, now, crashed, last>>

MergerInit ==
    [loadedFiles |-> <<>>, pages |-> <<>>, isProcessing |-> FALSE, error |-> NoError,
     dragItem |-> NullIdx, dragOverItem |-> NullIdx]

SplitterInit ==
    [loadedFile |-> NullRec, pages |-> <<>>, selectedPages |-> {},
     isProcessing |-> FALSE, error |-> NoError]

NoProgress == [text |-> "", i |-> 0, n |-> 0]

CompressorInit ==
    [file |-> NoFile, isProcessing |-> FALSE, result |-> NullRec, error |-> NoError,
     progress |-> NoProgress, compressionLevel |-> 0]

\* the page id of an event that names no page
NoPageId == PageId(FileId("", 0), 0)
\* the handler that ran last: its name, two numbers describing the call, the
\* page id it was given and the download it triggered
Event(op, a, b) == [op |-> op, a |-> a, b |-> b, id |-> NoPageId, download |-> NoDownload]

Init ==
    /\ activeTool = "Compress"
    /\ merger = MergerInit
    /\ splitter = SplitterInit
    /\ compressor = CompressorInit
    /\ tasks = <<>>
    /\ now = 0
    /\ crashed = FALSE
    /\ last = Event("mount", 0, 0)

\* the batches the Merger's dropzone can hand over: distinct File objects
Batches ==
    {b \in UNION {[1..n -> MergerFiles] : n \in 1..Cardinality(MergerFiles)} :
        \A i, j \in 1..Len(b) : i # j => b[i] # b[j]}
\* batches of two same-named files with different page counts
ReorderBatches == {<<1, 6>>, <<6, 1>>}

Mounted(tool) == activeTool = tool /\ ~crashed

(* ------------------------------ App ----------------------------------- *)
\* a tab button: setActiveTool(tool).  The tool shown so far is unmounted and
\* its state is gone; the setters of its suspended calls no longer reach any
\* component, and the model stops following those calls.
SetActiveTool(tool) ==
    /\ ~crashed
    /\ tool # activeTool
    /\ activeTool' = tool
    /\ merger' = MergerInit
    /\ splitter' = SplitterInit
    /\ compressor' = CompressorInit
    /\ tasks' = <<>>
    /\ last' = Event("setActiveTool", 0, 0)
    /\ UNCHANGED <<now, crashed>>

\* the values Date.now() can return: the clock never runs backwards, and two
\* reads may fall into the same millisecond
DateNow == now..Min(now + 1, MaxClock)

(* ------------------------------ PdfMerger ------------------------------ *)
MergerRest == <<activeTool, splitter, compressor>>

ErrNoPagesToMerge == "No pages to merge. Please add some PDF files."
ErrMerging == "An error occurred while merging the PDFs."
ErrCouldNotProcess == "Could not process the file. It may be corrupted or protected."

\* acceptedFiles.filter(f => !currentFileNames.has(f.name))
NewFiles(batch, loadedFiles) ==
    LET currentFileNames == {FileName[loadedFiles[k].file] : k \in 1..Len(loadedFiles)}
    IN SelectSeq(batch, LAMBDA f : FileName[f] \notin currentFileNames)

\* handleFilesAccepted up to its first await
HandleFilesAccepted(batch) ==
    /\ Mounted("Merge")
    /\ LET newFiles == NewFiles(batch, merger.loadedFiles)
       IN IF newFiles = <<>>
          THEN /\ merger' = [merger EXCEPT !.error = NoError]
               /\ tasks' = tasks
          ELSE /\ Len(tasks) < MaxTasks
               /\ merger' = [merger EXCEPT !.error = NoError, !.isProcessing = TRUE]
               /\ tasks' = Append(tasks,
                     [kind |-> "load", newFiles |-> newFiles,
                      newLoadedFiles |-> merger.loadedFiles,
                      newPages |-> merger.pages, queue |-> newFiles])
    /\ last' = Event("handleFilesAccepted", 0, 0)
    /\ UNCHANGED <<MergerRest, now, crashed>>

\* a loop that gives up at the first file that fails to parse: the files
\* after it are not visited
LoadFile_buggy(k, ts) ==
    /\ Mounted("Merge")
    /\ ts \in DateNow
    /\ now' = ts
    /\ k \in 1..Len(tasks)
    /\ tasks[k].kind = "load"
    /\ LET t == tasks[k]
           file == Head(t.queue)
           fileId == FileId(FileName[file], ts)
           newLoadedFiles == IF Parses(file)
                             THEN Append(t.newLoadedFiles, LoadedPdfFile(fileId, file))
                             ELSE t.newLoadedFiles
           newPages == IF Parses(file) THEN t.newPages \o PagesOf(fileId, file)
                       ELSE t.newPages
           error == IF Parses(file) THEN merger.error ELSE ErrCouldNotProcess
       IN IF Tail(t.queue) # <<>> /\ Parses(file)
          THEN /\ tasks' = [tasks EXCEPT ![k] = [t EXCEPT !.newLoadedFiles = newLoadedFiles,
                                                         !.newPages = newPages,
                                                         !.queue = Tail(t.queue)]]
               /\ merger' = [merger EXCEPT !.error = error]
          ELSE /\ tasks' = RemoveAt(tasks, k)
               /\ merger' = [merger EXCEPT !.error = error,
                                          !.loadedFiles = newLoadedFiles,
                                          !.pages = newPages,
                                          !.isProcessing = FALSE]
    /\ last' = Event("loadFile", 0, 0)
    /\ UNCHANGED <<MergerRest, crashed>>

\* one iteration of the for loop of handleFilesAccepted: the two awaits of the
\* iteration and the code after them; after the last file, the three setters
LoadFile(k, ts) ==
    /\ Mounted("Merge")
    /\ ts \in DateNow
    /\ now' = ts
    /\ k \in 1..Len(tasks)
    /\ tasks[k].kind = "load"
    /\ LET t == tasks[k]
           file == Head(t.queue)
           fileId == FileId(FileName[file], ts)
           newLoadedFiles == IF Parses(file)
                             THEN Append(t.newLoadedFiles, LoadedPdfFile(fileId, file))
                             ELSE t.newLoadedFiles
           newPages == IF Parses(file) THEN t.newPages \o PagesOf(fileId, file)
                       ELSE t.newPages
           error == IF Parses(file) THEN merger.error ELSE ErrCouldNotProcess
       IN IF Tail(t.queue) # <<>>
          THEN /\ tasks' = [tasks EXCEPT ![k] = [t EXCEPT !.newLoadedFiles = newLoadedFiles,
                                                         !.newPages = newPages,
                                                         !.queue = Tail(t.queue)]]
               /\ merger' = [merger EXCEPT !.error = error]
          ELSE /\ tasks' = RemoveAt(tasks, k)
               /\ merger' = [merger EXCEPT !.error = error,
                                          !.loadedFiles = newLoadedFiles,
                                          !.pages = newPages,
                                          !.isProcessing = FALSE]
    /\ last' = Event("loadFile", 0, 0)
    /\ UNCHANGED <<MergerRest, crashed>>

\* the X button of the thumbnail at position k: removePage(page.id)
RemovePageBody(pageIdToRemove) ==
    /\ merger' = [merger EXCEPT !.pages = FilterOut(merger.pages, {pageIdToRemove})]
    /\ last' = [Event("removePage", 0, Len(merger.pages)) EXCEPT !.id = pageIdToRemove]
    /\ UNCHANGED <<MergerRest, now, tasks, crashed>>

RemovePage(k) ==
    /\ Mounted("Merge")
    /\ k \in 1..Len(merger.pages)
    /\ RemovePageBody(merger.pages[k].id)

\* onDragStart of the thumbnail with index position
HandleDragStart(position) ==
    /\ Mounted("Merge")
    /\ position \in 0..(Len(merger.pages) - 1)
    /\ merger' = [merger EXCEPT !.dragItem = position]
    /\ last' = Event("handleDragStart", position, 0)
    /\ UNCHANGED <<MergerRest, now, tasks, crashed>>

\* onDragEnter of the thumbnail with index position
HandleDragEnter(position) ==
    /\ Mounted("Merge")
    /\ position \in 0..(Len(merger.pages) - 1)
    /\ merger' = [merger EXCEPT !.dragOverItem = position]
    /\ last' = Event("handleDragEnter", position, 0)
    /\ UNCHANGED <<MergerRest, now, tasks, crashed>>

\* onDrop of the thumbnail grid.  A list holding undefined makes the next
\* render throw (page.sourceFileId of undefined), which unmounts the tree.
HandleDrop ==
    /\ Mounted("Merge")
    /\ merger.pages # <<>>
    /\ IF merger.dragItem # NullIdx /\ merger.dragOverItem # NullIdx
       THEN LET newPages == MovePage(merger.pages, merger.dragItem, merger.dragOverItem)
            IN /\ merger' = [merger EXCEPT !.pages = newPages,
                                           !.dragItem = NullIdx,
                                           !.dragOverItem = NullIdx]
               /\ crashed' = (Undefined \in Range(newPages))
               /\ tasks' = IF Undefined \in Range(newPages) THEN <<>> ELSE tasks
       ELSE UNCHANGED <<merger, crashed, tasks>>
    /\ last' = Event("handleDrop", merger.dragItem, merger.dragOverItem)
    /\ UNCHANGED <<MergerRest, now>>

CopiedPage(f, index) == [file |-> f, index |-> index]

CopyIndex_buggy(page) == page.originalPageIndex
\* the index handed to copyPages for a page ref
CopyIndex(page) == page.originalPageIndex - 1

RECURSIVE MergeLoop(_, _, _, _)
\* for (const page of pages) { ... } of handleMerge: sourcePdfs is the cache of
\* parsed sources, doc the pages added to mergedPdf so far.  copyPages throws
\* on an index outside the source, page.sourceFileId throws on undefined.
MergeLoop(pages, loadedFiles, sourcePdfs, doc) ==
    IF pages = <<>> THEN [ok |-> TRUE, doc |-> doc]
    ELSE IF Head(pages) = Undefined THEN [ok |-> FALSE, doc |-> doc]
    ELSE LET page == Head(pages)
             loadedFile == FindFile(loadedFiles, page.sourceFileId)
             cached == IF page.sourceFileId \notin DOMAIN sourcePdfs /\ loadedFile # NullRec
                       THEN (page.sourceFileId :> loadedFile.file) @@ sourcePdfs
                       ELSE sourcePdfs
         IN IF page.sourceFileId \in DOMAIN cached
            THEN LET sourcePdf == cached[page.sourceFileId]
                 IN IF CopyIndex(page) \in 0..(FilePageCount[sourcePdf] - 1)
                    THEN MergeLoop(Tail(pages), loadedFiles, cached,
                                   Append(doc, CopiedPage(sourcePdf, CopyIndex(page))))
                    ELSE [ok |-> FALSE, doc |-> doc]
            ELSE MergeLoop(Tail(pages), loadedFiles, cached, doc)

\* a handleMerge that raises the busy flag before it looks at the page list
\* and lowers it on the way out
HandleMergeBody_buggy ==
    /\ IF Len(merger.pages) = 0
       THEN /\ merger' = [merger EXCEPT !.error = ErrNoPagesToMerge, !.isProcessing = FALSE]
            /\ tasks' = tasks
       ELSE /\ Len(tasks) < MaxTasks
            /\ merger' = [merger EXCEPT !.isProcessing = TRUE, !.error = NoError]
            /\ tasks' = Append(tasks,
                  [kind |-> "merge", pages |-> merger.pages, loadedFiles |-> merger.loadedFiles])
    /\ last' = Event("handleMerge", 0, 0)
    /\ UNCHANGED <<MergerRest, now, crashed>>
\* handleMerge up to its first await
HandleMergeBody ==
    /\ IF Len(merger.pages) = 0
       THEN /\ merger' = [merger EXCEPT !.error = ErrNoPagesToMerge]
            /\ tasks' = tasks
       ELSE /\ Len(tasks) < MaxTasks
            /\ merger' = [merger EXCEPT !.isProcessing = TRUE, !.error = NoError]
            /\ tasks' = Append(tasks,
                  [kind |-> "merge", pages |-> merger.pages, loadedFiles |-> merger.loadedFiles])
    /\ last' = Event("handleMerge", 0, 0)
    /\ UNCHANGED <<MergerRest, now, crashed>>

\* the Merge and Download button: rendered with a non-empty page list,
\* disabled while isProcessing
HandleMerge ==
    /\ Mounted("Merge")
    /\ merger.pages # <<>>
    /\ ~merger.isProcessing
    /\ HandleMergeBody

\* a handleMerge whose loop reads the working set as it is when the build
\* ends instead of the lists of the render it was called in
MergeDone_buggy(k, ioOk) ==
    /\ Mounted("Merge")
    /\ k \in 1..Len(tasks)
    /\ tasks[k].kind = "merge"
    /\ LET built == MergeLoop(merger.pages, merger.loadedFiles, <<>>, <<>>)
           ok == ioOk /\ built.ok
       IN /\ merger' = [merger EXCEPT !.error = IF ok THEN @ ELSE ErrMerging,
                                     !.isProcessing = FALSE]
          /\ last' = [Event("mergeDone", 0, IF ok THEN 1 ELSE 0) EXCEPT
                         !.download = IF ok THEN Download(<<"merged.pdf">>, built.doc)
                                      ELSE NoDownload]
    /\ tasks' = RemoveAt(tasks, k)
    /\ UNCHANGED <<MergerRest, now, crashed>>

\* the rest of handleMerge: the try block, catch and finally.  ioOk is false
\* when reading a source or save() rejects.
MergeDone(k, ioOk) ==
    /\ Mounted("Merge")
    /\ k \in 1..Len(tasks)
    /\ tasks[k].kind = "merge"
    /\ LET built == MergeLoop(tasks[k].pages, tasks[k].loadedFiles, <<>>, <<>>)
           ok == ioOk /\ built.ok
       IN /\ merger' = [merger EXCEPT !.error = IF ok THEN @ ELSE ErrMerging,
                                     !.isProcessing = FALSE]
          /\ last' = [Event("mergeDone", 0, IF ok THEN 1 ELSE 0) EXCEPT
                         !.download = IF ok THEN Download(<<"merged.pdf">>, built.doc)
                                      ELSE NoDownload]
    /\ tasks' = RemoveAt(tasks, k)
    /\ UNCHANGED <<MergerRest, now, crashed>>

\* a Start Over that forgets the loaded files but keeps the page list
MergerResetState_buggy ==
    /\ Mounted("Merge")
    /\ merger.pages # <<>>
    /\ merger' = [merger EXCEPT !.loadedFiles = <<>>, !.error = NoError,
                               !.isProcessing = FALSE]
    /\ last' = Event("resetState", 0, 0)
    /\ UNCHANGED <<MergerRest, now, tasks, crashed>>
\* the Start Over button of the Merger, rendered with a non-empty page list
MergerResetState ==
    /\ Mounted("Merge")
    /\ merger.pages # <<>>
    /\ merger' = [merger EXCEPT !.loadedFiles = <<>>, !.pages = <<>>,
                               !.error = NoError, !.isProcessing = FALSE]
    /\ last' = Event("resetState", 0, 0)
    /\ UNCHANGED <<MergerRest, now, tasks, crashed>>

(* ----------------------------- PdfSplitter ----------------------------- *)
SplitterRest == <<activeTool, merger, compressor, crashed>>

ErrNoPagesToCreate == "No pages to create a PDF from."
ErrCreating == "An error occurred while creating the new PDF."

\* resetState of the Splitter, applied to a value of its state
SplitterCleared(st) ==
    [st EXCEPT !.loadedFile = NullRec, !.pages = <<>>, !.selectedPages = {},
               !.error = NoError]

\* handleFileAccepted up to its first await; the dropzone is rendered while
\* loadedFile is null
SplitterHandleFileAccepted(file) ==
    /\ Mounted("Split")
    /\ splitter.loadedFile = NullRec
    /\ Len(tasks) < MaxTasks
    /\ splitter' = SplitterCleared([splitter EXCEPT !.error = NoError, !.isProcessing = TRUE])
    /\ tasks' = Append(tasks, [kind |-> "splitLoad", file |-> file])
    /\ last' = Event("handleFileAccepted", file, 0)
    /\ UNCHANGED <<SplitterRest, now>>

\* the rest of handleFileAccepted: try, catch (setError, then resetState) and finally
SplitLoadDone(k, ts) ==
    /\ Mounted("Split")
    /\ k \in 1..Len(tasks)
    /\ tasks[k].kind = "splitLoad"
    /\ ts \in DateNow
    /\ now' = ts
    /\ LET file == tasks[k].file
           fileId == FileId(FileName[file], ts)
       IN splitter' =
            IF Parses(file)
            THEN [splitter EXCEPT !.loadedFile = LoadedPdfFile(fileId, file),
                                  !.pages = PagesOf(fileId, file),
                                  !.isProcessing = FALSE]
            ELSE [SplitterCleared([splitter EXCEPT !.error = ErrCouldNotProcess])
                    EXCEPT !.isProcessing = FALSE]
    /\ tasks' = RemoveAt(tasks, k)
    /\ last' = Event("splitLoadDone", tasks[k].file, 0)
    /\ UNCHANGED SplitterRest

\* a click on the thumbnail at position k: togglePageSelection(page.id)
TogglePageSelection(k) ==
    /\ Mounted("Split")
    /\ splitter.loadedFile # NullRec
    /\ k \in 1..Len(splitter.pages)
    /\ LET pageId == splitter.pages[k].id
       IN splitter' = [splitter EXCEPT !.selectedPages =
                          IF pageId \in @ THEN @ \ {pageId} ELSE @ \cup {pageId}]
    /\ last' = Event("togglePageSelection", k, 0)
    /\ UNCHANGED <<SplitterRest, now, tasks>>

DeleteSelectedPagesBody ==
    /\ splitter' = [splitter EXCEPT !.pages = FilterOut(@, splitter.selectedPages),
                                   !.selectedPages = {}]
    /\ last' = Event("deleteSelectedPages", 0, 0)
    /\ UNCHANGED <<SplitterRest, now, tasks>>

\* the Delete Selected button: disabled with an empty selection or while isProcessing
DeleteSelectedPages ==
    /\ Mounted("Split")
    /\ splitter.loadedFile # NullRec
    /\ splitter.selectedPages # {}
    /\ ~splitter.isProcessing
    /\ DeleteSelectedPagesBody

\* handleCreatePdf up to its first await
HandleCreatePdfBody ==
    /\ IF splitter.loadedFile = NullRec \/ Len(splitter.pages) = 0
       THEN /\ splitter' = [splitter EXCEPT !.error = ErrNoPagesToCreate]
            /\ tasks' = tasks
       ELSE /\ Len(tasks) < MaxTasks
            /\ splitter' = [splitter EXCEPT !.isProcessing = TRUE, !.error = NoError]
            /\ tasks' = Append(tasks,
                  [kind |-> "create", loadedFile |-> splitter.loadedFile,
                   pages |-> splitter.pages])
    /\ last' = Event("handleCreatePdf", 0, 0)
    /\ UNCHANGED <<SplitterRest, now>>

\* the Create PDF button: disabled while isProcessing or with no pages
HandleCreatePdf ==
    /\ Mounted("Split")
    /\ splitter.loadedFile # NullRec
    /\ ~splitter.isProcessing
    /\ splitter.pages # <<>>
    /\ HandleCreatePdfBody

\* newPdf.copyPages(sourcePdf, pageIndicesToKeep) and the addPage loop;
\* copyPages throws on an index outside the source
CopyPages(file, pages) ==
    LET pageIndicesToKeep == [k \in 1..Len(pages) |-> CopyIndex(pages[k])]
    IN IF \A k \in 1..Len(pages) : pageIndicesToKeep[k] \in 0..(FilePageCount[file] - 1)
       THEN [ok |-> TRUE,
             doc |-> [k \in 1..Len(pages) |-> CopiedPage(file, pageIndicesToKeep[k])]]
       ELSE [ok |-> FALSE, doc |-> <<>>]

\* the rest of handleCreatePdf: the try block, catch and finally
CreateDone(k, ioOk) ==
    /\ Mounted("Split")
    /\ k \in 1..Len(tasks)
    /\ tasks[k].kind = "create"
    /\ LET t == tasks[k]
           built == CopyPages(t.loadedFile.file, t.pages)
           ok == ioOk /\ built.ok
       IN /\ splitter' = [splitter EXCEPT !.error = IF ok THEN @ ELSE ErrCreating,
                                         !.isProcessing = FALSE]
          /\ last' = [Event("createDone", 0, IF ok THEN 1 ELSE 0) EXCEPT
                         !.download = IF ok
                                      THEN Download(<<"split-", FileName[t.loadedFile.file]>>,
                                                    built.doc)
                                      ELSE NoDownload]
    /\ tasks' = RemoveAt(tasks, k)
    /\ UNCHANGED <<SplitterRest, now>>

\* the Start Over button of the Splitter, rendered while loadedFile is set
SplitterResetState ==
    /\ Mounted("Split")
    /\ splitter.loadedFile # NullRec
    /\ splitter' = SplitterCleared(splitter)
    /\ last' = Event("resetState", 0, 0)
    /\ UNCHANGED <<SplitterRest, now, tasks>>

(* ----------------------------- PdfCompressor --------------------------- *)
CompressorRest == <<activeTool, merger, splitter, crashed, now>>

\* the message of the catch block, in English
ErrCompressing == "An error occurred during compression."

\* scale and quality in percent
BaseScale == 150
COMPRESSION_LEVELS == <<[quality |-> 70, scale |-> 90], [quality |-> 80, scale |-> 100]>>

ProgressPreparing == [text |-> "preparing", i |-> 0, n |-> 0]
\* a progress text that counts the pages finished rather than the page at work
ProgressPage_buggy(i, n) == [text |-> "page", i |-> i - 1, n |-> n]
\* `${i} / ${totalPages} ...`
ProgressPage(i, n) == [text |-> "page", i |-> i, n |-> n]
ProgressFinishing == [text |-> "finishing", i |-> 0, n |-> 0]

\* page.getViewport({ scale: 1.5 * settings.scale }) of page i (from 1) of a file
GetViewport(file, i, settings) ==
    LET scale == (BaseScale * settings.scale) \div 100
    IN [width |-> (NativeSize(file, i).width * scale) \div 100,
        height |-> (NativeSize(file, i).height * scale) \div 100]

\* a variant of one loop iteration that sizes the output page by the unscaled page
CompressedPage_buggy(file, i, settings) ==
    [image |-> [file |-> file, page |-> i,
                width |-> GetViewport(file, i, settings).width,
                height |-> GetViewport(file, i, settings).height,
                quality |-> settings.quality],
     size |-> <<NativeSize(file, i).width, NativeSize(file, i).height>>]

\* one loop iteration: the canvas takes the viewport's size, the page is rendered
\* and encoded as JPEG, addPage([viewport.width, viewport.height]) and drawImage
CompressedPage(file, i, settings) ==
    LET viewport == GetViewport(file, i, settings)
    IN [image |-> [file |-> file, page |-> i,
                   width |-> viewport.width, height |-> viewport.height,
                   quality |-> settings.quality],
        size |-> <<viewport.width, viewport.height>>]

\* the dropzone of the Compressor, rendered while no file is set
CompressorHandleFileAccepted(file) ==
    /\ Mounted("Compress")
    /\ compressor.file = NoFile
    /\ compressor' = [compressor EXCEPT !.file = file, !.result = NullRec,
                                       !.error = NoError, !.progress = NoProgress]
    /\ last' = Event("handleFileAccepted", file, 0)
    /\ UNCHANGED <<CompressorRest, tasks>>

\* the level buttons, rendered while a file is set and no result is shown
SetCompressionLevel(index) ==
    /\ Mounted("Compress")
    /\ compressor.file # NoFile
    /\ compressor.result = NullRec
    /\ compressor' = [compressor EXCEPT !.compressionLevel = index]
    /\ last' = Event("setCompressionLevel", index, 0)
    /\ UNCHANGED <<CompressorRest, tasks>>

\* handleCompress up to its first await; the handler closes over the file and
\* the compression level of the render in which it was created
HandleCompressBody ==
    /\ IF compressor.file = NoFile
       THEN UNCHANGED <<compressor, tasks>>
       ELSE /\ Len(tasks) < MaxTasks
            /\ compressor' = [compressor EXCEPT !.isProcessing = TRUE, !.error = NoError,
                                               !.result = NullRec,
                                               !.progress = ProgressPreparing]
            /\ tasks' = Append(tasks,
                  [kind |-> "compress", file |-> compressor.file,
                   compressionLevel |-> compressor.compressionLevel,
                   phase |-> "open", i |-> 0, totalPages |-> 0, newPdfDoc |-> <<>>])
    /\ last' = Event("handleCompress", 0, 0)
    /\ UNCHANGED CompressorRest

\* the Compress PDF button: rendered with a file and no result, disabled while isProcessing
HandleCompress ==
    /\ Mounted("Compress")
    /\ compressor.file # NoFile
    /\ compressor.result = NullRec
    /\ ~compressor.isProcessing
    /\ HandleCompressBody

\* a catch without the finally block: the busy flag stays up
CompressFailed_buggy(k) ==
    /\ compressor' = [compressor EXCEPT !.error = ErrCompressing]
    /\ tasks' = RemoveAt(tasks, k)
\* catch and finally of handleCompress
CompressFailed(k) ==
    /\ compressor' = [compressor EXCEPT !.error = ErrCompressing, !.isProcessing = FALSE,
                                       !.progress = NoProgress]
    /\ tasks' = RemoveAt(tasks, k)

\* handleCompress from the first await to the first await of the loop (or of save):
\* the document is opened, totalPages read, the first progress text set
CompressOpen(k, ioOk) ==
    /\ Mounted("Compress")
    /\ k \in 1..Len(tasks)
    /\ tasks[k].kind = "compress"
    /\ tasks[k].phase = "open"
    /\ LET t == tasks[k]
           totalPages == FilePageCount[t.file]
       IN IF ~ioOk \/ ~Parses(t.file)
          THEN CompressFailed(k)
          ELSE IF 1 <= totalPages
               THEN /\ compressor' = [compressor EXCEPT !.progress = ProgressPage(1, totalPages)]
                    /\ tasks' = [tasks EXCEPT ![k].phase = "page", ![k].i = 1,
                                              ![k].totalPages = totalPages]
               ELSE /\ compressor' = [compressor EXCEPT !.progress = ProgressFinishing]
                    /\ tasks' = [tasks EXCEPT ![k].phase = "save",
                                              ![k].totalPages = totalPages]
    /\ last' = Event("compressOpen", tasks[k].file, 0)
    /\ UNCHANGED CompressorRest

\* a loop that looks up the settings in every iteration, from the level
\* selected at that moment
CompressPage_buggy(k, ioOk) ==
    /\ Mounted("Compress")
    /\ k \in 1..Len(tasks)
    /\ tasks[k].kind = "compress"
    /\ tasks[k].phase = "page"
    /\ LET t == tasks[k]
           settings == COMPRESSION_LEVELS[compressor.compressionLevel + 1]
           newPdfDoc == Append(t.newPdfDoc, CompressedPage(t.file, t.i, settings))
       IN IF ~ioOk
          THEN CompressFailed(k)
          ELSE IF t.i + 1 <= t.totalPages
               THEN /\ compressor' = [compressor EXCEPT
                                         !.progress = ProgressPage(t.i + 1, t.totalPages)]
                    /\ tasks' = [tasks EXCEPT ![k].i = t.i + 1, ![k].newPdfDoc = newPdfDoc]
               ELSE /\ compressor' = [compressor EXCEPT !.progress = ProgressFinishing]
                    /\ tasks' = [tasks EXCEPT ![k].phase = "save", ![k].i = t.i + 1,
                                              ![k].newPdfDoc = newPdfDoc]
    /\ last' = Event("compressPage", tasks[k].i, 0)
    /\ UNCHANGED CompressorRest

\* the rest of iteration i of the loop, then the start of iteration i + 1
\* (its setProgress) or, after the last page, setProgress of the finishing text
CompressPage(k, ioOk) ==
    /\ Mounted("Compress")
    /\ k \in 1..Len(tasks)
    /\ tasks[k].kind = "compress"
    /\ tasks[k].phase = "page"
    /\ LET t == tasks[k]
           settings == COMPRESSION_LEVELS[t.compressionLevel + 1]
           newPdfDoc == Append(t.newPdfDoc, CompressedPage(t.file, t.i, settings))
       IN IF ~ioOk
          THEN CompressFailed(k)
          ELSE IF t.i + 1 <= t.totalPages
               THEN /\ compressor' = [compressor EXCEPT
                                         !.progress = ProgressPage(t.i + 1, t.totalPages)]
                    /\ tasks' = [tasks EXCEPT ![k].i = t.i + 1, ![k].newPdfDoc = newPdfDoc]
               ELSE /\ compressor' = [compressor EXCEPT !.progress = ProgressFinishing]
                    /\ tasks' = [tasks EXCEPT ![k].phase = "save", ![k].i = t.i + 1,
                                              ![k].newPdfDoc = newPdfDoc]
    /\ last' = Event("compressPage", tasks[k].i, 0)
    /\ UNCHANGED CompressorRest

\* newPdfDoc.save(), setResult, finally
CompressSave(k, ioOk) ==
    /\ Mounted("Compress")
    /\ k \in 1..Len(tasks)
    /\ tasks[k].kind = "compress"
    /\ tasks[k].phase = "save"
    /\ LET t == tasks[k]
       IN IF ~ioOk
          THEN CompressFailed(k)
          ELSE /\ compressor' = [compressor EXCEPT
                     !.result = [fileName |-> <<"compressed-", FileName[t.file]>>,
                                 data |-> t.newPdfDoc],
                     !.isProcessing = FALSE, !.progress = NoProgress]
               /\ tasks' = RemoveAt(tasks, k)
    /\ last' = Event("compressSave", tasks[k].file, tasks[k].compressionLevel)
    /\ UNCHANGED CompressorRest

\* the Download button of the result panel
DownloadCompressedFile ==
    /\ Mounted("Compress")
    /\ compressor.result # NullRec
    /\ last' = [Event("downloadCompressedFile", 0, 0) EXCEPT
                   !.download = Download(compressor.result.fileName, compressor.result.data)]
    /\ UNCHANGED <<CompressorRest, compressor, tasks>>

\* "Choose a different file" (disabled while isProcessing) and "Compress another file"
CompressorResetState ==
    /\ Mounted("Compress")
    /\ \/ compressor.file # NoFile /\ compressor.result = NullRec /\ ~compressor.isProcessing
       \/ compressor.result # NullRec
    /\ compressor' = [compressor EXCEPT !.file = NoFile, !.result = NullRec,
                                       !.error = NoError, !.isProcessing = FALSE,
                                       !.progress = NoProgress]
    /\ last' = Event("resetState", 0, 0)
    /\ UNCHANGED <<CompressorRest, tasks>>

(* --------------------------- the application --------------------------- *)
\* what a user can do in the rendered page, and the continuations of the
\* asynchronous handlers; the Merger is fed the batches of the given set
MergerUI(batches) ==
    \/ \E batch \in batches : HandleFilesAccepted(batch)
    \/ \E k \in 1..MaxTasks, ts \in 0..MaxClock : LoadFile(k, ts)
    \/ \E k \in 1..Len(merger.pages) : RemovePage(k)
    \/ MergerResetState

MergerDrag ==
    \/ \E position \in 0..(Len(merger.pages) - 1) : HandleDragStart(position)
    \/ \E position \in 0..(Len(merger.pages) - 1) : HandleDragEnter(position)
    \/ HandleDrop

MergerBuild ==
    \/ HandleMerge
    \/ \E k \in 1..MaxTasks, ioOk \in BOOLEAN : MergeDone(k, ioOk)

SplitterUI ==
    \/ \E file \in SplitterFiles : SplitterHandleFileAccepted(file)
    \/ \E k \in 1..MaxTasks, ts \in 0..MaxClock : SplitLoadDone(k, ts)
    \/ \E k \in 1..Len(splitter.pages) : TogglePageSelection(k)
    \/ DeleteSelectedPages
    \/ HandleCreatePdf
    \/ \E k \in 1..MaxTasks, ioOk \in BOOLEAN : CreateDone(k, ioOk)
    \/ SplitterResetState

CompressorUI ==
    \/ \E file \in CompressorFiles : CompressorHandleFileAccepted(file)
    \/ \E index \in 0..(Len(COMPRESSION_LEVELS) - 1) : SetCompressionLevel(index)
    \/ HandleCompress
    \/ \E k \in 1..MaxTasks, ioOk \in BOOLEAN : CompressOpen(k, ioOk)
    \/ \E k \in 1..MaxTasks, ioOk \in BOOLEAN : CompressPage(k, ioOk)
    \/ \E k \in 1..MaxTasks, ioOk \in BOOLEAN : CompressSave(k, ioOk)
    \/ DownloadCompressedFile
    \/ CompressorResetState

Next ==
    \/ \E tool \in Tool : SetActiveTool(tool)
    \/ MergerUI(Batches)
    \/ MergerDrag
    \/ MergerBuild
    \/ SplitterUI
    \/ CompressorUI

Spec == Init /\ [][Next]_vars

\* the Merger fed same-named files of one and of two pages, without builds
NextReorder ==
    \/ \E tool \in Tool : SetActiveTool(tool)
    \/ MergerUI(ReorderBatches)
    \/ MergerDrag

SpecReorder == Init /\ [][NextReorder]_vars

\* the ids a page of the Merger can have
PossiblePageIds ==
    UNION {{PageId(FileId(FileName[f], ts), i) : i \in 0..(FilePageCount[f] - 1)} :
              f \in MergerFiles, ts \in 0..MaxClock}

\* the handlers called directly, as a test of the component calls them: no
\* button has to be rendered or enabled for the call
DirectRemovePage(pageIdToRemove) == Mounted("Merge") /\ RemovePageBody(pageIdToRemove)
DirectHandleMerge == Mounted("Merge") /\ HandleMergeBody
DirectDeleteSelectedPages == Mounted("Split") /\ DeleteSelectedPagesBody
DirectHandleCreatePdf == Mounted("Split") /\ HandleCreatePdfBody

NextHandlers ==
    \/ \E tool \in Tool : SetActiveTool(tool)
    \/ MergerUI(Batches)
    \/ \E pageIdToRemove \in PossiblePageIds : DirectRemovePage(pageIdToRemove)
    \/ DirectHandleMerge
    \/ \E k \in 1..MaxTasks, ioOk \in BOOLEAN : MergeDone(k, ioOk)
    \/ \E file \in SplitterFiles : SplitterHandleFileAccepted(file)
    \/ \E k \in 1..MaxTasks, ts \in 0..MaxClock : SplitLoadDone(k, ts)
    \/ \E k \in 1..Len(splitter.pages) : TogglePageSelection(k)
    \/ DirectDeleteSelectedPages
    \/ DirectHandleCreatePdf
    \/ \E k \in 1..MaxTasks, ioOk \in BOOLEAN : CreateDone(k, ioOk)
    \/ SplitterResetState

SpecHandlers == Init /\ [][NextHandlers]_vars

(* ------------------- handleMerge on given lists ------------------------ *)
\* handleMerge as a function of the pages and loadedFiles it is called with:
\* the lists are drawn from all short lists of page refs and of loaded files
\* of the two a.pdf, whether or not the Merger's other handlers can produce them
MergeInputRefs ==
    {PageInProcessing(FileId("a.pdf", ts), i) : ts \in 0..MaxClock, i \in 0..1}

MergeInputPages ==
    {<<p>> : p \in MergeInputRefs} \cup {<<p, q>> : p \in MergeInputRefs, q \in MergeInputRefs}

MergeInputFiles ==
    {<<>>,
     <<LoadedPdfFile(FileId("a.pdf", 0), 6)>>,
     <<LoadedPdfFile(FileId("a.pdf", 0), 1), LoadedPdfFile(FileId("a.pdf", MaxClock), 6)>>}

InitMergeInput ==
    /\ activeTool = "Merge"
    /\ \E pages \in MergeInputPages, loadedFiles \in MergeInputFiles :
          merger = [MergerInit EXCEPT !.pages = pages, !.loadedFiles = loadedFiles]
    /\ splitter = SplitterInit
    /\ compressor = CompressorInit
    /\ tasks = <<>>
    /\ now = 0
    /\ crashed = FALSE
    /\ last = Event("mount", 0, 0)

NextMergeInput ==
    \/ HandleMerge
    \/ \E k \in 1..MaxTasks, ioOk \in BOOLEAN : MergeDone(k, ioOk)

SpecMergeInput == InitMergeInput /\ [][NextMergeInput]_vars

(* ------------------------------ properties ----------------------------- *)
\* the copy of page index (from 0) of file f, stated without the model's helpers
CopyOf(f, index) == [file |-> f, index |-> index]

\* C1 (Merger half): when a merge over a snapshot whose page refs all resolve
\* ends with a download, the document has one page per page ref, and its k-th
\* page is the copy of page originalPageIndex - 1 of the file that the k-th
\* page ref's sourceFileId resolves to.
C1_MergeStep ==
    \A k \in 1..Len(tasks) :
        LET t == tasks[k]
        IN (/\ t.kind = "merge"
            /\ tasks' = RemoveAt(tasks, k)
            /\ last'.op = "mergeDone"
            /\ last'.b = 1
            /\ \A j \in 1..Len(t.pages) :
                   FindFile(t.loadedFiles, t.pages[j].sourceFileId) # NullRec)
           => /\ t.pages # <<>>
              /\ Len(last'.download.doc) = Len(t.pages)
              /\ \A j \in 1..Len(t.pages) :
                     last'.download.doc[j] =
                         CopyOf(FindFile(t.loadedFiles, t.pages[j].sourceFileId).file,
                                t.pages[j].originalPageIndex - 1)

\* C1 (Splitter half): the same for handleCreatePdf, whose source is loadedFile.
C1_CreateStep ==
    \A k \in 1..Len(tasks) :
        LET t == tasks[k]
        IN (/\ t.kind = "create"
            /\ tasks' = RemoveAt(tasks, k)
            /\ last'.op = "createDone"
            /\ last'.b = 1
            /\ \A j \in 1..Len(t.pages) : t.pages[j].sourceFileId = t.loadedFile.id)
           => /\ t.pages # <<>>
              /\ Len(last'.download.doc) = Len(t.pages)
              /\ \A j \in 1..Len(t.pages) :
                     last'.download.doc[j] =
                         CopyOf(t.loadedFile.file, t.pages[j].originalPageIndex - 1)

\* C1: a successful copy build (handleMerge, handleCreatePdf) over a non-empty
\* working set whose page refs all resolve outputs exactly len(pages) pages,
\* the k-th being the copy of page originalPageIndex - 1 of the source of pages[k].
C1_CopyBuildOutput == [][C1_MergeStep /\ C1_CreateStep]_vars

\* a merge of two pages taken from two different files has been downloaded
C1_Witness ==
    /\ last.op = "mergeDone"
    /\ last.b = 1
    /\ Len(last.download.doc) = 2
    /\ last.download.doc[1].file # last.download.doc[2].file

\* C2: in the Merger a drop whose recorded drag index d and drop index t are
\* both positions of the page list moves the element at d to position t of
\* the shortened list: same length, the dragged element at t, and the other
\* elements in their previous relative order.
C2_DropMoves ==
    [][(/\ last'.op = "handleDrop"
        /\ merger.dragItem \in 0..(Len(merger.pages) - 1)
        /\ merger.dragOverItem \in 0..(Len(merger.pages) - 1))
       => LET d == merger.dragItem
              t == merger.dragOverItem
          IN /\ Len(merger'.pages) = Len(merger.pages)
             /\ merger'.pages[Min(t, Len(merger.pages) - 1) + 1] = merger.pages[d + 1]
             /\ RemoveAt(merger'.pages, t + 1) = RemoveAt(merger.pages, d + 1)
             /\ \A p \in Range(merger.pages) :
                    Cardinality({j \in 1..Len(merger.pages) : merger.pages[j] = p})
                  = Cardinality({j \in 1..Len(merger'.pages) : merger'.pages[j] = p})]_vars

\* a drop has moved a page towards the end of a list of three pages
C2_Witness ==
    /\ last.op = "handleDrop"
    /\ ~crashed
    /\ Len(merger.pages) = 3
    /\ last.a \in 0..2
    /\ last.b \in 0..2
    /\ last.a < last.b
    /\ merger.pages[1] # merger.pages[2]

\* the page refs of a page list (a list can also hold undefined, which is none)
PageRefs(pages) == {p \in Range(pages) : p # Undefined}

\* C3: every page ref of a working set has 1 <= originalPageIndex <= pageCount
\* of its source file (the loaded file its sourceFileId resolves to), as
\* follows if each load of an N-page file appends refs with indices 1..N.
C3_PageIndexWithinSource ==
    /\ \A p \in PageRefs(merger.pages) :
           LET loadedFile == FindFile(merger.loadedFiles, p.sourceFileId)
           IN loadedFile # NullRec
              => 1 <= p.originalPageIndex /\ p.originalPageIndex <= loadedFile.pageCount
    /\ \A p \in PageRefs(splitter.pages) :
           splitter.loadedFile # NullRec
              => /\ 1 <= p.originalPageIndex
                 /\ p.originalPageIndex <= splitter.loadedFile.pageCount

\* C4 (Merger half): removePage(id) leaves exactly the page refs with another
\* id, in their previous order; an id that is not in the list changes
\* nothing, and removing it again changes nothing.
C4_RemoveStep ==
    (last'.op = "removePage")
    => LET id == last'.id
           Keep(p) == p.id # id
       IN /\ merger'.pages = SelectSeq(merger.pages, Keep)
          /\ (\A j \in 1..Len(merger.pages) : merger.pages[j].id # id)
                => merger'.pages = merger.pages
          /\ SelectSeq(merger'.pages, Keep) = merger'.pages
          /\ Len(SelectSeq(merger'.pages, Keep)) = Len(merger'.pages)

\* C4 (Splitter half): deleteSelectedPages leaves exactly the page refs whose
\* id is not selected, in their previous order, and applied again it changes nothing.
C4_DeleteStep ==
    (last'.op = "deleteSelectedPages")
    => LET ids == splitter.selectedPages
           Keep(p) == p.id \notin ids
           KeepAgain(p) == p.id \notin (ids \cup splitter'.selectedPages)
       IN /\ splitter'.pages = SelectSeq(splitter.pages, Keep)
          /\ (\A j \in 1..Len(splitter.pages) : splitter.pages[j].id \notin ids)
                => splitter'.pages = splitter.pages
          /\ SelectSeq(splitter'.pages, KeepAgain) = splitter'.pages

\* C4: removal is an order-preserving filter and idempotent, for removePage
\* of the Merger and deleteSelectedPages of the Splitter.
C4_RemovalIsFilter == [][C4_RemoveStep /\ C4_DeleteStep]_vars

\* the 4-page source with pages 2 and 4 deleted: the working set is [A1, A3]
C4_Witness ==
    /\ last.op = "deleteSelectedPages"
    /\ splitter.loadedFile # NullRec
    /\ splitter.loadedFile.pageCount = 4
    /\ Len(splitter.pages) = 2
    /\ splitter.pages[1].originalPageIndex = 1
    /\ splitter.pages[2].originalPageIndex = 3

\* C5: no two page refs of the Merger's working set have the same id.
C5_UniquePageIds ==
    \A i, j \in 1..Len(merger.pages) :
        (i # j /\ merger.pages[i] # Undefined /\ merger.pages[j] # Undefined)
        => merger.pages[i].id # merger.pages[j].id

\* C6: every page ref refers to a loaded source: in the Merger its
\* sourceFileId is the id of an entry of loadedFiles; in the Splitter a
\* non-empty page list comes with a loadedFile whose id every page ref carries.
C6_PagesReferLoaded ==
    /\ \A p \in PageRefs(merger.pages) :
           \E k \in 1..Len(merger.loadedFiles) : merger.loadedFiles[k].id = p.sourceFileId
    /\ splitter.pages # <<>>
          => /\ splitter.loadedFile # NullRec
             /\ \A p \in PageRefs(splitter.pages) : p.sourceFileId = splitter.loadedFile.id

\* two files are loaded in the Merger and a page of each is in the working set
C6_Witness ==
    /\ Len(merger.loadedFiles) = 2
    /\ merger.loadedFiles[1].id # merger.loadedFiles[2].id
    /\ Len(merger.pages) = 2
    /\ merger.pages[1] # Undefined
    /\ merger.pages[2] # Undefined
    /\ merger.pages[1].sourceFileId = merger.loadedFiles[2].id
    /\ merger.pages[2].sourceFileId = merger.loadedFiles[1].id

\* C7: after a successful handleCompress over a source of N >= 1 pages the
\* result has exactly N pages; the k-th is the image rendered from source
\* page k and has the width and height of that page's viewport, which is the
\* page's own size scaled by 1.5 times the scale of the chosen level.
C7_RasterizedOutput ==
    (/\ last.op = "compressSave"
     /\ compressor.result # NullRec
     /\ FilePageCount[last.a] >= 1)
    => LET file == last.a
           percent == (150 * COMPRESSION_LEVELS[last.b + 1].scale) \div 100
           data == compressor.result.data
       IN /\ Len(data) = FilePageCount[file]
          /\ \A k \in 1..Len(data) :
                /\ data[k].image.file = file
                /\ data[k].image.page = k
                /\ data[k].image.width = (NativeSize(file, k).width * percent) \div 100
                /\ data[k].image.height = (NativeSize(file, k).height * percent) \div 100
                /\ data[k].size = <<data[k].image.width, data[k].image.height>>

\* the 4-page source has been compressed at the standard level
C7_Witness ==
    /\ last.op = "compressSave"
    /\ compressor.result # NullRec
    /\ FilePageCount[last.a] = 4
    /\ last.b = 0
    /\ Len(compressor.result.data) = 4

\* the progress text changes to "page i of n" in this step
EmitsPage == compressor'.progress.text = "page" /\ compressor'.progress # compressor.progress

\* C8 as stated: "page i of N" is emitted after page i has been rendered,
\* encoded and appended, so at the emission the output holds at least i pages.
C8_ProgressAfterPage ==
    [][EmitsPage
       => \E k \in 1..Len(tasks') :
             /\ tasks'[k].kind = "compress"
             /\ Len(tasks'[k].newPdfDoc) >= compressor'.progress.i]_vars

\* C8 as the code has it: "page i of N" is emitted when the work on page i
\* starts, with pages 1..i-1 appended to the output and page i not yet; it is
\* emitted once per page, for i = 1, 2, ..., N in this order (the first after
\* the preparing text, each next one after its predecessor), and the
\* finishing text follows "page N of N".
C8_ProgressBeforePage ==
    [][/\ EmitsPage
          => /\ \E k \in 1..Len(tasks') :
                   /\ tasks'[k].kind = "compress"
                   /\ tasks'[k].totalPages = compressor'.progress.n
                   /\ tasks'[k].totalPages = FilePageCount[tasks'[k].file]
                   /\ Len(tasks'[k].newPdfDoc) = compressor'.progress.i - 1
             /\ compressor'.progress.i \in 1..compressor'.progress.n
             /\ IF compressor'.progress.i = 1
                THEN compressor.progress.text = "preparing"
                ELSE /\ compressor.progress.text = "page"
                     /\ compressor.progress.n = compressor'.progress.n
                     /\ compressor.progress.i = compressor'.progress.i - 1
       /\ (compressor'.progress.text = "finishing" /\ compressor.progress.text # "finishing")
          => \/ compressor.progress.text = "page" /\ compressor.progress.i = compressor.progress.n
             \/ /\ compressor.progress.text = "preparing"
                /\ \E k \in 1..Len(tasks') :
                      tasks'[k].kind = "compress" /\ FilePageCount[tasks'[k].file] = 0
       /\ (compressor.progress.text = "page" /\ compressor'.progress.text = "page")
          => compressor'.progress.i >= compressor.progress.i]_vars

\* "page 4 of 4" is shown while the output holds three pages
C8_Witness ==
    /\ compressor.progress.text = "page"
    /\ compressor.progress.i = 4
    /\ compressor.progress.n = 4
    /\ \E k \in 1..Len(tasks) : tasks[k].kind = "compress" /\ Len(tasks[k].newPdfDoc) = 3

\* C9 (Merger half): handleMerge with an empty page list sets the error
\* message and nothing else: no build starts, no download, busy flag and
\* page list as before.
C9_MergeStep ==
    (last'.op = "handleMerge" /\ merger.pages = <<>>)
    => /\ merger'.error = "No pages to merge. Please add some PDF files."
       /\ merger'.isProcessing = merger.isProcessing
       /\ merger'.pages = merger.pages
       /\ merger'.loadedFiles = merger.loadedFiles
       /\ tasks' = tasks
       /\ last'.download = NoDownload

\* C9 (Splitter half): the same for handleCreatePdf.
C9_CreateStep ==
    (last'.op = "handleCreatePdf" /\ splitter.pages = <<>>)
    => /\ splitter'.error = "No pages to create a PDF from."
       /\ splitter'.isProcessing = splitter.isProcessing
       /\ splitter'.pages = splitter.pages
       /\ splitter'.loadedFile = splitter.loadedFile
       /\ tasks' = tasks
       /\ last'.download = NoDownload

\* C9: a copy build invoked on an empty working set fails with the
\* empty-input error: the message is set, nothing is downloaded, and the busy
\* flag and the working set are unchanged.
C9_EmptyCopyBuild == [][C9_MergeStep /\ C9_CreateStep]_vars

\* handleMerge has refused an empty page list while a load was in flight: the
\* busy flag raised by the load is still up
C9_Witness ==
    /\ last.op = "handleMerge"
    /\ merger.pages = <<>>
    /\ merger.error = ErrNoPagesToMerge
    /\ merger.isProcessing
    /\ tasks # <<>>

\* C10: handleCompress on a source of zero pages fails: no result is set, and
\* when the build is over an error is reported.
C10_EmptyRasterizedBuild ==
    (compressor.file # NoFile /\ FilePageCount[compressor.file] = 0)
    => /\ compressor.result = NullRec
       /\ last.op = "compressSave" => compressor.error # NoError

\* the handleMerge runs that have started and neither completed nor failed
MergesInFlight == {k \in 1..Len(tasks) : tasks[k].kind = "merge"}

\* C11: in the Merger at most one handleMerge run is between its start and
\* its completion or failure, whatever the Merge clicks, file loads and
\* Start Over do in between.
C11_OneMergeAtATime == Cardinality(MergesInFlight) <= 1

\* C12: in the Merger the working set is not changed while a build is in
\* progress: as long as a handleMerge run is in flight, pages and loadedFiles
\* are what they were when it started.
C12_NoMutationDuringMerge ==
    \A k \in MergesInFlight :
        /\ merger.pages = tasks[k].pages
        /\ merger.loadedFiles = tasks[k].loadedFiles

\* C13: in the Merger no two entries of loadedFiles have the same file name.
C13_UniqueFileNames ==
    \A i, j \in 1..Len(merger.loadedFiles) :
        i # j => FileName[merger.loadedFiles[i].file] # FileName[merger.loadedFiles[j].file]

RECURSIVE PagesOfEntries(_)
\* the page refs of a list of loadedFiles entries: for each entry, in order,
\* one ref per page of its file, with indices 1, 2, ... and the entry's id
PagesOfEntries(entries) ==
    IF entries = <<>> THEN <<>>
    ELSE [i \in 1..FilePageCount[Head(entries).file] |->
             [id |-> <<Head(entries).id, i - 1>>, sourceFileId |-> Head(entries).id,
              originalPageIndex |-> i]]
         \o PagesOfEntries(Tail(entries))

\* the last n elements of a sequence
Suffix(s, n) == SubSeq(s, Len(s) - n + 1, Len(s))

\* C14: when a batch finishes in the Merger, the files of the batch that
\* parse are, in batch order, the last entries of loadedFiles, their pages
\* are, in the same order, the last page refs of the working set, the files
\* that fail to parse contribute nothing, and the busy flag is false; and at
\* the moment a file fails to parse the error message is set, whether or not
\* files follow it in the batch.
C14_PerFileParseError ==
    [][\A k \in 1..Len(tasks) :
          (tasks[k].kind = "load" /\ last'.op = "loadFile")
          => LET t == tasks[k]
                 parsed == SelectSeq(t.newFiles, LAMBDA f : FilePageCount[f] >= 0)
                 n == Len(parsed)
             IN /\ (tasks' = RemoveAt(tasks, k))
                   => /\ Len(merger'.loadedFiles) >= n
                      /\ LET entries == Suffix(merger'.loadedFiles, n)
                         IN /\ \A j \in 1..n : entries[j].file = parsed[j]
                            /\ \A j \in 1..n : entries[j].pageCount = FilePageCount[parsed[j]]
                            /\ Len(merger'.pages) >= Len(PagesOfEntries(entries))
                            /\ Suffix(merger'.pages, Len(PagesOfEntries(entries)))
                                  = PagesOfEntries(entries)
                      /\ merger'.isProcessing = FALSE
                /\ (/\ FilePageCount[Head(t.queue)] < 0
                    /\ \/ tasks' = RemoveAt(tasks, k)
                       \/ /\ Len(tasks') = Len(tasks)
                          /\ tasks'[k].queue = Tail(t.queue)
                          /\ tasks'[k].queue # <<>>)
                   => merger'.error = "Could not process the file. It may be corrupted or protected."]_vars

\* a batch with a file that does not parse has finished: the error is shown,
\* the two files that parse are loaded with their pages, the busy flag is down
C14_Witness ==
    /\ last.op = "loadFile"
    /\ tasks = <<>>
    /\ merger.error = ErrCouldNotProcess
    /\ ~merger.isProcessing
    /\ Len(merger.loadedFiles) = 2
    /\ Len(merger.pages) = 2
    /\ merger.loadedFiles[1].file # merger.loadedFiles[2].file

\* C15 (copy builds): when handleMerge or handleCreatePdf fails, nothing is
\* downloaded, the error message is set, the busy flag is false, and the
\* working set and the loaded files are what they were before the failure.
C15_CopyBuildFails ==
    /\ (last'.op = "mergeDone" /\ last'.b = 0)
       => /\ last'.download = NoDownload
          /\ merger'.error = "An error occurred while merging the PDFs."
          /\ ~merger'.isProcessing
          /\ merger'.pages = merger.pages
          /\ merger'.loadedFiles = merger.loadedFiles
    /\ (last'.op = "createDone" /\ last'.b = 0)
       => /\ last'.download = NoDownload
          /\ splitter'.error = "An error occurred while creating the new PDF."
          /\ ~splitter'.isProcessing
          /\ splitter'.pages = splitter.pages
          /\ splitter'.loadedFile = splitter.loadedFile

\* C15 (rasterized build): when handleCompress ends without a result, the
\* error message is set, the busy flag is false, the selected file is still
\* selected, and the Compress button can be used again.
C15_RasterizedBuildFails ==
    (/\ last'.op \in {"compressOpen", "compressPage", "compressSave"}
     /\ Len(tasks') < Len(tasks)
     /\ compressor'.result = NullRec)
    => /\ compressor'.error # NoError
       /\ ~compressor'.isProcessing
       /\ compressor'.file = compressor.file
       /\ compressor'.file # NoFile
       /\ compressor'.progress = NoProgress

\* C15: a build is all-or-nothing and can be retried: a failure at any step
\* delivers no output, sets an error, lowers the busy flag and leaves the
\* working set or the selected file as it was.  And an output is delivered
\* only by a build that did not fail: a step that sets a result or triggers
\* a build's download is the last step of a build, and sets no error.
C15_AllOrNothing ==
    [][/\ C15_CopyBuildFails
       /\ C15_RasterizedBuildFails
       /\ (compressor'.result # NullRec /\ compressor.result = NullRec)
          => (last'.op = "compressSave" /\ compressor'.error = NoError)
       /\ (last'.download # NoDownload /\ last'.op # "downloadCompressedFile")
          => (last'.op \in {"mergeDone", "createDone"} /\ last'.b = 1)]_vars

\* the render of the second page of a compression has failed: error shown,
\* no result, busy flag down, the file still selected
C15_Witness ==
    /\ last.op = "compressPage"
    /\ last.a = 2
    /\ tasks = <<>>
    /\ compressor.error = ErrCompressing
    /\ compressor.result = NullRec
    /\ ~compressor.isProcessing
    /\ compressor.file # NoFile

\* C16: in the Merger a load only appends: when a load completes, the
\* working set is the working set as it stood just before the completion
\* followed by the newly loaded pages, and likewise loadedFiles, so what was
\* removed, reordered or reset while the load was in flight stays so.
C16_LoadOnlyAppends ==
    [][\A k \in 1..Len(tasks) :
          (tasks[k].kind = "load" /\ tasks' = RemoveAt(tasks, k) /\ last'.op = "loadFile")
          => /\ Len(merger'.pages) >= Len(merger.pages)
             /\ SubSeq(merger'.pages, 1, Len(merger.pages)) = merger.pages
             /\ Len(merger'.loadedFiles) >= Len(merger.loadedFiles)
             /\ SubSeq(merger'.loadedFiles, 1, Len(merger.loadedFiles)) = merger.loadedFiles]_vars

\* the handleCompress runs that have started and neither completed nor failed
CompressionsInFlight == {k \in 1..Len(tasks) : tasks[k].kind = "compress"}

\* C17: in the rasterizing Compressor isProcessing is true exactly while a
\* build is in flight and at most one build is in flight; and while
\* isProcessing is true nothing but the build itself ends the build, lowers
\* the flag or changes the selected file: no second build, no reset and no
\* change of file can be started.
C17_BusyGate ==
    [][/\ Cardinality(CompressionsInFlight) <= 1
       /\ compressor.isProcessing <=> CompressionsInFlight # {}
       /\ (compressor.isProcessing
           /\ last'.op \notin {"compressOpen", "compressPage", "compressSave"})
          => /\ compressor'.isProcessing
             /\ compressor'.file = compressor.file
             /\ CompressionsInFlight # {}
             /\ tasks' = tasks]_vars

RenderedWith(doc, preset) ==
    \A j \in 1..Len(doc) :
        /\ doc[j].image.quality = preset.quality
        /\ doc[j].image.width
              = (NativeSize(doc[j].image.file, doc[j].image.page).width
                 * ((150 * preset.scale) \div 100)) \div 100

\* C19: all pages of one rasterized build are rendered and encoded with one
\* profile, the preset selected when the build started, also when the level
\* is changed during the build; and the selected level is always one of the
\* presets, whose quality is in (0, 1] and whose scale is positive (both are
\* counted in percent here).
C19_OneProfilePerBuild ==
    [][/\ compressor'.compressionLevel \in 0..(Len(COMPRESSION_LEVELS) - 1)
       /\ \A j \in 1..Len(COMPRESSION_LEVELS) :
             /\ COMPRESSION_LEVELS[j].quality \in 1..100
             /\ COMPRESSION_LEVELS[j].scale > 0
       /\ (last'.op = "handleCompress" /\ Len(tasks') > Len(tasks))
          => tasks'[Len(tasks')].compressionLevel = compressor.compressionLevel
       /\ \A k \in 1..Len(tasks') :
             tasks'[k].kind = "compress"
             => /\ RenderedWith(tasks'[k].newPdfDoc,
                                COMPRESSION_LEVELS[tasks'[k].compressionLevel + 1])
                /\ \A j \in 1..Len(tasks) :
                      (tasks[j].kind = "compress" /\ last'.op # "handleCompress")
                      => tasks'[k].compressionLevel = tasks[j].compressionLevel
       /\ (last'.op = "compressSave" /\ compressor'.result # NullRec)
          => \E k \in 1..Len(tasks) :
                /\ tasks[k].kind = "compress"
                /\ compressor'.result.data = tasks[k].newPdfDoc
                /\ RenderedWith(compressor'.result.data,
                                COMPRESSION_LEVELS[tasks[k].compressionLevel + 1])]_vars

\* two pages have been rendered with the preset of the start of the build
\* while another level is selected by now
C19_Witness ==
    \E k \in 1..Len(tasks) :
        /\ tasks[k].kind = "compress"
        /\ Len(tasks[k].newPdfDoc) = 2
        /\ tasks[k].compressionLevel # compressor.compressionLevel
        /\ tasks[k].newPdfDoc[1].image.quality = tasks[k].newPdfDoc[2].image.quality

\* C20: in the Merger a drop whose recorded drag index or drop index is not
\* a position of the page list any more is a no-op or a clamped move and no
\* error: the list after the drop has the same length, holds only page refs,
\* each as often as before, and the page still renders.
C20_StaleDropTolerated ==
    [][(/\ last'.op = "handleDrop"
        /\ merger.dragItem # NullIdx
        /\ merger.dragOverItem # NullIdx
        /\ \/ merger.dragItem \notin 0..(Len(merger.pages) - 1)
           \/ merger.dragOverItem \notin 0..(Len(merger.pages) - 1))
       => /\ Len(merger'.pages) = Len(merger.pages)
          /\ Undefined \notin Range(merger'.pages)
          /\ \A p \in Range(merger.pages) \cup Range(merger'.pages) :
                Cardinality({j \in 1..Len(merger.pages) : merger.pages[j] = p})
              = Cardinality({j \in 1..Len(merger'.pages) : merger'.pages[j] = p})
          /\ ~crashed']_vars

\* C21: a merge works on the lists of the click: the task of a handleMerge
\* run holds pages and loadedFiles as they were when Merge was clicked, it
\* holds them unchanged as long as the run is in flight, and the document a
\* successful run delivers has one page per page ref of these lists that
\* resolves, in their order, whatever the working set has become meanwhile.
C21_MergeSnapshot ==
    [][/\ \A k \in 1..Len(tasks') :
             tasks'[k].kind = "merge"
             => \/ \E j \in 1..Len(tasks) : tasks[j] = tasks'[k]
                \/ /\ last'.op = "handleMerge"
                   /\ k = Len(tasks')
                   /\ tasks'[k].pages = merger.pages
                   /\ tasks'[k].loadedFiles = merger.loadedFiles
       /\ \A k \in 1..Len(tasks) :
             (/\ tasks[k].kind = "merge"
              /\ tasks' = RemoveAt(tasks, k)
              /\ last'.op = "mergeDone"
              /\ last'.b = 1)
             => LET t == tasks[k]
                    Resolves(p) == FindFile(t.loadedFiles, p.sourceFileId) # NullRec
                    written == SelectSeq(t.pages, Resolves)
                IN /\ Len(last'.download.doc) = Len(written)
                   /\ \A j \in 1..Len(written) :
                         last'.download.doc[j] =
                             CopyOf(FindFile(t.loadedFiles, written[j].sourceFileId).file,
                                    written[j].originalPageIndex - 1)]_vars

\* a merge has delivered a document of two pages although the working set
\* was emptied while it ran
C21_Witness ==
    /\ last.op = "mergeDone"
    /\ last.b = 1
    /\ Len(last.download.doc) = 2
    /\ merger.pages = <<>>

\* C22: in the Splitter every id in selectedPages is the id of a page that is
\* in pages, so the number of selected ids is the number of pages that
\* deleteSelectedPages would remove.
C22_SelectionWithinPages ==
    /\ splitter.selectedPages \subseteq {p.id : p \in PageRefs(splitter.pages)}
    /\ Cardinality(splitter.selectedPages)
          = Cardinality({j \in 1..Len(splitter.pages) :
                            splitter.pages[j].id \in splitter.selectedPages})

====
